---- MODULE Spec2Model ----
(***************************************************************************)
(* DD1750 generator: extraction of BOM items from a parsed PDF and their   *)
(* pagination onto the DD Form 1750 template (src/dd1750_core.py).          *)
(*                                                                         *)
(* Text is modelled by TLA+ strings read character by character, with the  *)
(* semantics Python's str and re give over ASCII.  A PDF cell that is None *)
(* is modelled by "": the code tests cells only by truthiness.             *)
(***************************************************************************)
EXTENDS Integers, Sequences, FiniteSets, TLC

(***************************************************************************)
(* Characters and Python's str operations                                  *)
(***************************************************************************)
Ch(s, i) == SubSeq(s, i, i)

Min2(a, b) == IF a < b THEN a ELSE b

Max2(a, b) == IF a > b THEN a ELSE b

DigitChars == "0123456789"

LowerChars == "abcdefghijklmnopqrstuvwxyz"

UpperChars == "ABCDEFGHIJKLMNOPQRSTUVWXYZ"

DigitSet == {SubSeq(DigitChars, i, i) : i \in 1..10}

LetterSet ==
    {SubSeq(LowerChars, i, i) : i \in 1..26} \cup {SubSeq(UpperChars, i, i) : i \in 1..26}

IsDigit(c) == c \in DigitSet

DigitVal(c) == (CHOOSE i \in 1..10 : SubSeq(DigitChars, i, i) = c) - 1

\* The ASCII characters that \s, str.strip and str.split take as whitespace:
\* the space, \t, \n, \r, \f, the vertical tab (11) and the separators 28..31.
IsSpace(c) ==
    c \in {" ", "\t", "\n", "\r", "\f", "", "", "", "", ""}

\* \w of Python's re for ASCII text.
IsWordChar(c) == c \in DigitSet \cup LetterSet \cup {"_"}

UpperCh(c) ==
    IF \E i \in 1..26 : SubSeq(LowerChars, i, i) = c
    THEN SubSeq(UpperChars, (CHOOSE i \in 1..26 : SubSeq(LowerChars, i, i) = c),
                            (CHOOSE i \in 1..26 : SubSeq(LowerChars, i, i) = c))
    ELSE c

RECURSIVE UpperRange(_, _, _)
\* s[lo..hi] in upper case, by halves.
UpperRange(s, lo, hi) ==
    IF lo > hi THEN ""
    ELSE IF lo = hi THEN UpperCh(Ch(s, lo))
         ELSE UpperRange(s, lo, (lo + hi) \div 2)
              \o UpperRange(s, (lo + hi) \div 2 + 1, hi)

\* str.upper()
Upper(s) == UpperRange(s, 1, Len(s))

\* str.strip()
Strip(s) ==
    LET keep == {i \in 1..Len(s) : ~IsSpace(SubSeq(s, i, i))}
    IN  IF keep = {} THEN ""
        ELSE SubSeq(s, CHOOSE i \in keep : \A j \in keep : i <= j,
                       CHOOSE i \in keep : \A j \in keep : i >= j)

\* sub in s, for a non-empty sub
Contains(s, sub) ==
    \E i \in 1..(Len(s) - Len(sub) + 1) : SubSeq(s, i, i + Len(sub) - 1) = sub

\* s.split(c)[0] for a one-character separator c
BeforeFirst(s, c) ==
    LET at == {i \in 1..Len(s) : Ch(s, i) = c}
    IN  IF at = {} THEN s
        ELSE SubSeq(s, 1, (CHOOSE i \in at : \A j \in at : i <= j) - 1)

\* What position i gives to re.sub(r'\s+', ' ', s): a run of whitespace
\* becomes one space, written at its first character.
CollapseAt(s, i) ==
    IF IsSpace(Ch(s, i))
    THEN (IF i > 1 /\ IsSpace(Ch(s, i - 1)) THEN "" ELSE " ")
    ELSE Ch(s, i)

RECURSIVE CollapseRange(_, _, _)
CollapseRange(s, lo, hi) ==
    IF lo > hi THEN ""
    ELSE IF lo = hi THEN CollapseAt(s, lo)
         ELSE CollapseRange(s, lo, (lo + hi) \div 2)
              \o CollapseRange(s, (lo + hi) \div 2 + 1, hi)

\* re.sub(r'\s+', ' ', s)
CollapseSpaces(s) == CollapseRange(s, 1, Len(s))

\* s[:n]
Prefix(s, n) == SubSeq(s, 1, Min2(n, Len(s)))

\* The k-th smallest member of a set of integers.
Nth(S, k) == CHOOSE x \in S : Cardinality({y \in S : y < x}) = k - 1

\* str.split() with no argument: the maximal runs of non-space characters
Words(s) ==
    LET starts == {i \in 1..Len(s) :
                      ~IsSpace(Ch(s, i)) /\ (i = 1 \/ IsSpace(Ch(s, i - 1)))}
        ends   == {i \in 1..Len(s) :
                      ~IsSpace(Ch(s, i)) /\ (i = Len(s) \/ IsSpace(Ch(s, i + 1)))}
    IN  [k \in 1..Cardinality(starts) |-> SubSeq(s, Nth(starts, k), Nth(ends, k))]

RECURSIVE JoinRange(_, _, _)
JoinRange(ws, lo, hi) ==
    IF lo > hi THEN ""
    ELSE IF lo = hi THEN ws[lo]
         ELSE JoinRange(ws, lo, (lo + hi) \div 2) \o " "
              \o JoinRange(ws, (lo + hi) \div 2 + 1, hi)

\* ' '.join(ws)
Join(ws) == JoinRange(ws, 1, Len(ws))

\* text.split('\n'): the pieces between the newlines, empty ones included
SplitLines(s) ==
    LET nl == {i \in 1..Len(s) : Ch(s, i) = "\n"}
        n  == Cardinality(nl)
    IN  [k \in 1..(n + 1) |->
            SubSeq(s, IF k = 1 THEN 1 ELSE Nth(nl, k - 1) + 1,
                      IF k = n + 1 THEN Len(s) ELSE Nth(nl, k) - 1)]

AllDigits(s) == \A i \in 1..Len(s) : IsDigit(Ch(s, i))

\* str.isdigit()
IsDigitStr(s) == Len(s) > 0 /\ AllDigits(s)

RECURSIVE DigitsValue(_, _)
\* The value of the decimal digits of s[1..n], underscores skipped.
DigitsValue(s, n) ==
    IF n = 0 THEN 0
    ELSE IF Ch(s, n) = "_" THEN DigitsValue(s, n - 1)
         ELSE 10 * DigitsValue(s, n - 1) + DigitVal(Ch(s, n))

\* The literals int() accepts after the sign: digits, single underscores between.
IsIntBody(s) ==
    /\ Len(s) > 0
    /\ \A i \in 1..Len(s) :
          \/ SubSeq(s, i, i) \in DigitSet
          \/ /\ SubSeq(s, i, i) = "_"
             /\ 1 < i
             /\ i < Len(s)
             /\ SubSeq(s, i + 1, i + 1) # "_"

Signed(neg, v) == IF neg THEN 0 - v ELSE v

\* int() of a stripped text whose sign, if any, is taken off: body
IntOfBody(body, neg) ==
    IF IsIntBody(body)
    THEN [ok |-> TRUE, val |-> Signed(neg, DigitsValue(body, Len(body)))]
    ELSE [ok |-> FALSE, val |-> 0]

IntOfStripped(t) ==
    IF Len(t) > 0 /\ SubSeq(t, 1, 1) \in {"+", "-"}
    THEN IntOfBody(SubSeq(t, 2, Len(t)), SubSeq(t, 1, 1) = "-")
    ELSE IntOfBody(t, FALSE)

\* int(s): [ok |-> whether int() returns, val |-> its value]
ParseInt(s) == IntOfStripped(Strip(s))

\* Where re.search(r'\b(\d{9})\b', s) matches: the start positions.
NsnMatches(s) ==
    {i \in 1..(Len(s) - 8) :
        /\ AllDigits(SubSeq(s, i, i + 8))
        /\ (i = 1 \/ ~IsWordChar(Ch(s, i - 1)))
        /\ (i + 9 > Len(s) \/ ~IsWordChar(Ch(s, i + 9)))}

\* The least member of a non-empty set of integers.
Least(S) == CHOOSE k \in S : \A j \in S : k <= j

\* The greatest member of a non-empty set of integers.
Greatest(S) == CHOOSE k \in S : \A j \in S : k >= j

NsnAt(s, at) == IF at = {} THEN "" ELSE SubSeq(s, Least(at), Least(at) + 8)

\* group(1) of re.search(r'\b(\d{9})\b', s), "" when there is no match
SearchNsn(s) == NsnAt(s, NsnMatches(s))

\* re.match(r'^\d{9}$', s): $ also matches before one trailing newline
IsNineDigits(s) ==
    \/ Len(s) = 9 /\ AllDigits(s)
    \/ Len(s) = 10 /\ AllDigits(SubSeq(s, 1, 9)) /\ Ch(s, 10) = "\n"

(***************************************************************************)
(* extract_items_from_pdf: the table path                                  *)
(***************************************************************************)
BomItem(n, d, s, q) == [line_no |-> n, description |-> d, nsn |-> s, qty |-> q]

\* The header keywords in the order the if/elif chain tests them, each with
\* the key of col_indices it sets.
RoleKeywords ==
    <<<<"LV", "lv">>, <<"LEVEL", "lv">>, <<"DESCRIPTION", "desc">>,
      <<"MATERIAL", "material">>, <<"QTY", "qty">>, <<"QUANTITY", "qty">>>>

Roles == {"lv", "desc", "material", "qty"}

RoleOfHits(hits) == IF hits = {} THEN "" ELSE RoleKeywords[Least(hits)][2]

RoleOfText(t) ==
    RoleOfHits({k \in 1..Len(RoleKeywords) : Contains(t, RoleKeywords[k][1])})

\* The key of col_indices a header cell sets, "" when it sets none.
ColRole(cell) == IF cell = "" THEN "" ELSE RoleOfText(Upper(Strip(cell)))

LastOr0(at) == IF at = {} THEN 0 ELSE Greatest(at)

\* col_indices[role] as a 1-based index, 0 when the key is absent: a later
\* header cell with the same role overwrites an earlier one.
ColIndex(header, role) ==
    LastOr0({i \in 1..Len(header) : ColRole(header[i]) = role})

CellAt(row, c) == IF c > 0 /\ Len(row) >= c THEN row[c] ELSE ""

\* The cell of a role's column, "" when the column or the cell is missing.
CellOf(header, row, role) == CellAt(row, ColIndex(header, role))

\* not any(cell for cell in row)
IsEmptyRow(row) == \A i \in 1..Len(row) : row[i] = ""

\* Fault variant of IsLevelB: 'B' in lv_cell instead of == 'B'.
IsLevelBContains(lvCell) == Contains(Upper(Strip(lvCell)), "B")

\* The level cell, trimmed and upper-cased, is exactly "B".
IsLevelB(lvCell) == Upper(Strip(lvCell)) = "B"

\* d.split(c)[0].strip() when c occurs in d
CutAt(d, c) == IF Contains(d, c) THEN Strip(BeforeFirst(d, c)) ELSE d

\* Text before ':' and before '(', whitespace collapsed.
CleanDescription(d) ==
    Strip(CollapseSpaces(CutAt(CutAt(d, ":"), "(")))

CellDescription(cell) == IF cell = "" THEN "" ELSE CleanDescription(Strip(cell))

CellNsn(cell) == IF cell = "" THEN "" ELSE SearchNsn(Strip(cell))

\* try: int(...) except: 1
IntOr1(n) == IF n.ok THEN n.val ELSE 1

CellQty(cell) == IF cell = "" THEN 1 ELSE IntOr1(ParseInt(cell))

MaxDescription == 100

\* Fault variant of NextLineNo: numbering from 0.
NextLineNoFromZero(its) == Len(its)

\* The line_no of the next item of the list its.
NextLineNo(its) == Len(its) + 1

\* Fault variant of NewItems: no `if description`, no [:100].
NewItemsUnchecked(n, description, nsn, qty) == <<BomItem(n, description, nsn, qty)>>

\* `if description: items.append(BomItem(...))`, as zero or one item.
NewItems(n, description, nsn, qty) ==
    IF description = "" THEN <<>>
    ELSE <<BomItem(n, Prefix(description, MaxDescription), nsn, qty)>>

\* The item of a data row whose cells by role are `cell`.
CellsItems(cell, empty, n) ==
    IF empty \/ ~IsLevelB(cell["lv"]) THEN <<>>
    ELSE NewItems(n, CellDescription(cell["desc"]), CellNsn(cell["material"]),
                  CellQty(cell["qty"]))

\* The item a data row appends, as a sequence of zero or one item.
RowItems(header, row, items) ==
    CellsItems([role \in Roles |-> CellOf(header, row, role)], IsEmptyRow(row),
               NextLineNo(items))

RECURSIVE TableRows(_, _, _)
\* Rows r.. of a table, appended to items.
TableRows(table, r, items) ==
    IF r > Len(table) THEN items
    ELSE TableRows(table, r + 1, items \o RowItems(table[1], table[r], items))

RECURSIVE ExtractTables(_, _, _)
\* Tables t.. of a page, appended to items; a table under two rows is skipped.
ExtractTables(tables, t, items) ==
    IF t > Len(tables) THEN items
    ELSE ExtractTables(tables, t + 1,
             IF Len(tables[t]) < 2 THEN items
             ELSE TableRows(tables[t], 2, items))

(***************************************************************************)
(* extract_items_from_pdf: the text fallback                               *)
(***************************************************************************)
NonEmpty(l) == l # ""

StripAll(raw) == [i \in 1..Len(raw) |-> Strip(raw[i])]

\* [ln.strip() for ln in text.split('\n') if ln.strip()]
TextLines(text) == SelectSeq(StripAll(SplitLines(text)), NonEmpty)

\* The first position at or after i that holds no whitespace.
SkipSpaces(s, i) ==
    IF i > Len(s) THEN i
    ELSE CHOOSE j \in i..(Len(s) + 1) :
            /\ j = Len(s) + 1 \/ ~IsSpace(Ch(s, j))
            /\ \A k \in i..(j - 1) : IsSpace(Ch(s, k))

NoMatch == [ok |-> FALSE, nsn |-> "", rest |-> ""]

\* After the code, whitespace up to b, "B" at b, whitespace up to d, the rest.
Pattern1At(line, b, d) ==
    IF b > 10 /\ b <= Len(line) /\ Ch(line, b) = "B" /\ d > b + 1 /\ d <= Len(line)
    THEN [ok |-> TRUE, nsn |-> SubSeq(line, 1, 9), rest |-> SubSeq(line, d, Len(line))]
    ELSE NoMatch

Pattern1From(line, b) == Pattern1At(line, b, SkipSpaces(line, b + 1))

\* re.match(r'^(\d{9})\s+B\s+(.+)$', line) on a stripped line without newline:
\* both \s+ take their whole run of whitespace, (.+) the rest of the line.
Pattern1(line) ==
    IF Len(line) >= 9 /\ AllDigits(SubSeq(line, 1, 9))
    THEN Pattern1From(line, SkipSpaces(line, 10))
    ELSE NoMatch

QtyOfWords(description, ws) ==
    IF description # "" /\ IsDigitStr(ws[Len(ws)])
    THEN [qty |-> DigitsValue(ws[Len(ws)], Len(ws[Len(ws)])),
          description |-> Join(SubSeq(ws, 1, Len(ws) - 1))]
    ELSE [qty |-> 1, description |-> description]

\* A trailing all-digit word of the description is taken as the quantity.
QtySplit(description) == QtyOfWords(description, Words(description))

SplitItems(n, nsn, q) == NewItems(n, q.description, nsn, q.qty)

\* The item of a line that Pattern1 matched as m.
Pattern1Items(m, items) ==
    SplitItems(NextLineNo(items), m.nsn, QtySplit(CleanDescription(m.rest)))

\* ' B ' in line and ',' in line
Pattern2(line) == Contains(line, " B ") /\ Contains(line, ",")

FirstOr0(at) == IF at = {} THEN 0 ELSE Least(at)

\* parts.index('B') as a 1-based index, 0 when 'B' is no word of the line
BIndex(parts) == FirstOr0({i \in 1..Len(parts) : parts[i] = "B"})

NearbyWindow == 3

\* lines[max(0, i-3) : min(len(lines), i+3)] for the 1-based position k = i + 1
NearbyRange(lines, k) ==
    Max2(1, k - NearbyWindow)..Min2(Len(lines), k + NearbyWindow - 1)

FirstFound(found, js) == IF js = {} THEN "" ELSE found[Least(js)]

NearbyOf(found, range) == FirstFound(found, {j \in range : found[j] # ""})

\* The first 9-digit code among the lines near line k.
NearbyNsn(lines, k) ==
    NearbyOf([j \in 1..Len(lines) |-> SearchNsn(lines[j])], NearbyRange(lines, k))

\* The code before "B" when it is one, else the one found nearby.
Pattern2Nsn(parts, b, lines, k) ==
    IF b > 1 /\ IsNineDigits(parts[b - 1]) THEN parts[b - 1]
    ELSE NearbyNsn(lines, k)

Pattern2At(parts, b, lines, k, n) ==
    IF b = 0 THEN <<>>
    ELSE SplitItems(n, Pattern2Nsn(parts, b, lines, k),
                    QtySplit(CleanDescription(Join(SubSeq(parts, b + 1, Len(parts))))))

Pattern2Parts(parts, lines, k, n) == Pattern2At(parts, BIndex(parts), lines, k, n)

Pattern2Items(lines, k, items) ==
    Pattern2Parts(Words(lines[k]), lines, k, NextLineNo(items))

MatchedItems(m, lines, k, items) ==
    IF m.ok THEN Pattern1Items(m, items)
    ELSE IF Pattern2(lines[k]) THEN Pattern2Items(lines, k, items)
    ELSE <<>>

\* The item line k appends, as a sequence of zero or one item.
LineItems(lines, k, items) == MatchedItems(Pattern1(lines[k]), lines, k, items)

RECURSIVE TextRows(_, _, _)
\* Lines k.. of a page's text, appended to items.
TextRows(lines, k, items) ==
    IF k > Len(lines) THEN items
    ELSE TextRows(lines, k + 1, items \o LineItems(lines, k, items))

(***************************************************************************)
(* main.py: _clean_description                                             *)
(***************************************************************************)
RECURSIVE DropRange(_, _, _, _)
\* The characters of s[lo..hi] whose positions are not in drop, by halves.
DropRange(s, drop, lo, hi) ==
    IF lo > hi THEN ""
    ELSE IF lo = hi THEN (IF lo \in drop THEN "" ELSE Ch(s, lo))
         ELSE DropRange(s, drop, lo, (lo + hi) \div 2)
              \o DropRange(s, drop, (lo + hi) \div 2 + 1, hi)

\* s without the characters at the positions in drop: re.sub(..., '', s)
\* when drop is what the matches cover.
Without(s, drop) == DropRange(s, drop, 1, Len(s))

\* Where the maximal runs of word characters of s begin.
WordStarts(s) ==
    {i \in 1..Len(s) : IsWordChar(Ch(s, i)) /\ (i = 1 \/ ~IsWordChar(Ch(s, i - 1)))}

\* Where the run of word characters that holds position i ends.
WordEnd(s, i) ==
    Least({j \in i..Len(s) : j = Len(s) \/ ~IsWordChar(Ch(s, j + 1))})

\* The alternatives of r'\b(WTY|ARC|CIIC|UI|SCMC|EA|AY|9K|9G)\b'.
ColumnCodes == {"WTY", "ARC", "CIIC", "UI", "SCMC", "EA", "AY", "9K", "9G"}

\* The alternatives of r'\b(WTY|ARC|CIIC|UI|SCMC)\b.*?\d*'.
LeakedCodes == {"WTY", "ARC", "CIIC", "UI", "SCMC"}

\* The positions of the whole words of s that, whatever their case, are in
\* codes: between two \b a match is a whole run of word characters.
CodeWords(s, codes) ==
    UNION {i..WordEnd(s, i) :
              i \in {j \in WordStarts(s) :
                        Upper(SubSeq(s, j, WordEnd(s, j))) \in codes}}

\* The positions r'\b\d{6,}\b' matches: the whole words of six or more digits.
LongNumbers(s) ==
    UNION {i..WordEnd(s, i) :
              i \in {j \in WordStarts(s) :
                        /\ WordEnd(s, j) - j + 1 >= 6
                        /\ AllDigits(SubSeq(s, j, WordEnd(s, j)))}}

\* [A-Z0-9]
IsCodeChar(c) == c \in DigitSet \cup {SubSeq(UpperChars, i, i) : i \in 1..26}

\* Where the run of [A-Z0-9] that begins at position i ends, i - 1 when
\* position i holds none.
CodeRunEnd(s, i) ==
    IF i > Len(s) \/ ~IsCodeChar(Ch(s, i)) THEN i - 1
    ELSE Least({j \in i..Len(s) : j = Len(s) \/ ~IsCodeChar(Ch(s, j + 1))})

\* [A-Z0-9]+ from position u on: where it ends, 0 when it does not match.
MaterialIdLast(s, u) == IF CodeRunEnd(s, u) >= u THEN CodeRunEnd(s, u) ELSE 0

\* ~\s*[A-Z0-9]+ from position t on: where it ends, 0 when it does not match.
MaterialIdTail(s, t) ==
    IF t <= Len(s) /\ Ch(s, t) = "~"
    THEN MaterialIdLast(s, SkipSpaces(s, t + 1))
    ELSE 0

\* [A-Z0-9]+\s*~\s*[A-Z0-9]+ from position r on.
MaterialIdBody(s, r, e) ==
    IF e >= r THEN MaterialIdTail(s, SkipSpaces(s, e + 1)) ELSE 0

\* r'C_[A-Z0-9]+\s*~\s*[A-Z0-9]+' at position i: where the match ends, 0
\* when there is none.
MaterialIdEnd(s, i) ==
    IF i + 1 <= Len(s) /\ SubSeq(s, i, i + 1) = "C_"
    THEN MaterialIdBody(s, i + 2, CodeRunEnd(s, i + 2))
    ELSE 0

RECURSIVE MaterialIdsFrom(_, _)
\* The positions of the match that begins at position i, and of those after it.
MaterialIdsAt(s, i, e) == (i..e) \cup MaterialIdsFrom(s, e + 1)

\* The first match at or after one of the positions in at, and those after it.
MaterialIdsIn(s, at) ==
    IF at = {} THEN {} ELSE MaterialIdsAt(s, Least(at), MaterialIdEnd(s, Least(at)))

\* The positions the matches of the pattern cover, found from position p on
\* from left to right without overlap.
MaterialIdsFrom(s, p) == MaterialIdsIn(s, {i \in p..Len(s) : MaterialIdEnd(s, i) > 0})

\* Where the run of digits that begins at position i ends.
DigitRunEnd(s, i) ==
    Least({j \in i..Len(s) : j = Len(s) \/ ~IsDigit(Ch(s, j + 1))})

\* The positions r'COEI-\d+' matches.
CoeiCodes(s) ==
    UNION {i..DigitRunEnd(s, i + 5) :
              i \in {j \in 1..(Len(s) - 5) :
                        SubSeq(s, j, j + 4) = "COEI-" /\ IsDigit(Ch(s, j + 5))}}

\* re.sub(r'[,\-:]+\s*$', '', s) for s with no whitespace at its end: s
\* without the commas, dashes and colons at its end.
TrimTail(s) ==
    SubSeq(s, 1, Greatest({0} \cup {i \in 1..Len(s) : Ch(s, i) \notin {",", "-", ":"}}))

MaxCleaned == 120

CleanedKeep == 117

\* if len(text) > 120: text = text[:117] + "..."
Shorten(s) == IF Len(s) > MaxCleaned THEN SubSeq(s, 1, CleanedKeep) \o "..." ELSE s

\* The four removals of main.py's _clean_description, one after the other.
RemoveCodes(s) == Without(s, CodeWords(s, LeakedCodes))

RemoveMaterialIds(s) == Without(s, MaterialIdsFrom(s, 1))

RemoveCoei(s) == Without(s, CoeiCodes(s))

RemoveLongNumbers(s) == Without(s, LongNumbers(s))

\* _clean_description(text)
MainCleanDescription(text) ==
    IF text = "" THEN ""
    ELSE Shorten(TrimTail(Strip(CollapseSpaces(
             RemoveLongNumbers(RemoveCoei(RemoveMaterialIds(RemoveCodes(text))))))))

(***************************************************************************)
(* extract_items_from_pdf: one page                                        *)
(***************************************************************************)
\* The items after the tables of a page.
AfterTables(page, items) == ExtractTables(page.tables, 1, items)

\* `if not items`: the text is read when the list is empty after the tables.
UsesText(after) == after = <<>>

\* The second half of an iteration, with the list `after` the tables.
TextStage(page, after) ==
    IF ~UsesText(after)
    THEN [raises |-> FALSE, usesText |-> FALSE, items |-> after]
    ELSE IF page.textRaise
    THEN [raises |-> TRUE, usesText |-> TRUE, items |-> after]
    ELSE [raises |-> FALSE, usesText |-> TRUE,
          items |-> TextRows(TextLines(page.text), 1, after)]

\* One iteration of the loop over the pages, from the list `items`:
\*   raises   - reading the tables raises, or reading the text when it is read
\*   usesText - the text extraction is entered
\*   items    - the list after the page, when nothing raises
PageOutcome(page, items) ==
    IF page.tablesRaise
    THEN [raises |-> TRUE, usesText |-> FALSE, items |-> items]
    ELSE TextStage(page, AfterTables(page, items))

(***************************************************************************)
(* generate_dd1750_from_pdf: pagination and the overlay rows               *)
(***************************************************************************)
ROWS_PER_PAGE == 18

\* Fault variant of TotalPages: n // ROWS_PER_PAGE + 1.
TotalPagesFloorPlusOne(n) == n \div ROWS_PER_PAGE + 1

\* math.ceil(n / ROWS_PER_PAGE)
TotalPages(n) == (n + ROWS_PER_PAGE - 1) \div ROWS_PER_PAGE

\* Fault variant of PageChunk: every page takes its rows from the start of
\* the list.
PageChunkFromStart(its, page_num) ==
    SubSeq(its, 1, Min2(ROWS_PER_PAGE, Len(its) - page_num * ROWS_PER_PAGE))

\* items[page_num * ROWS_PER_PAGE : min((page_num + 1) * ROWS_PER_PAGE, len(items))]
PageChunk(its, page_num) ==
    SubSeq(its, page_num * ROWS_PER_PAGE + 1,
           Min2((page_num + 1) * ROWS_PER_PAGE, Len(its)))

RECURSIVE NatStr(_)
NatStr(n) ==
    IF n < 10 THEN Ch(DigitChars, n + 1)
    ELSE NatStr(n \div 10) \o Ch(DigitChars, (n % 10) + 1)

\* str(n) of an integer
IntStr(n) == IF n < 0 THEN "-" \o NatStr(0 - n) ELSE NatStr(n)

DescDrawMax == 50

DescDrawKeep == 47

\* What one item draws in its row of the overlay.
DrawnRow(item) ==
    [box    |-> IntStr(item.line_no),
     desc   |-> IF Len(item.description) > DescDrawMax
                THEN Prefix(item.description, DescDrawKeep) \o "..."
                ELSE item.description,
     nsn    |-> IF item.nsn # "" THEN "NSN: " \o item.nsn ELSE "",
     uoi    |-> "EA",
     init   |-> IntStr(item.qty),
     spares |-> "0",
     total  |-> IntStr(item.qty)]

\* The overlay of one output page: row i of the grid holds the i-th item.
Overlay(page_items) == [i \in 1..Len(page_items) |-> DrawnRow(page_items[i])]

\* A page of the output: the template page it copies and what is merged on it.
MergedPage(tpl, rows) == [tpl |-> tpl, merged |-> TRUE, rows |-> rows]

PlainPage(tpl) == [tpl |-> tpl, merged |-> FALSE, rows |-> <<>>]

\* PdfReader(template_path).pages[0] raises when the template has no page.
TemplateHasFirstPage(n) == n >= 1

(***************************************************************************)
(* main.py: extract_items_from_pdf                                         *)
(*                                                                         *)
(* A BomItem is an object that current_item and the list can both refer    *)
(* to.  objs holds the objects made so far; list (the list `items`) and    *)
(* cur (current_item, 0 for None) refer to them by their index in objs;    *)
(* pending is pending_nsn, "" for None; lines and line are the lines of    *)
(* the page being read and the index i + 1 of the line to handle, 0 when   *)
(* no page is being read.                                                  *)
(***************************************************************************)
MainStart ==
    [objs |-> <<>>, list |-> <<>>, cur |-> 0, pending |-> "", lines |-> <<>>,
     line |-> 0]

\* current_item.nsn = pending_nsn; items.append(current_item)
AppendWithNsn(st) ==
    [st EXCEPT !.objs = [st.objs EXCEPT ![st.cur].nsn = st.pending],
               !.list = Append(st.list, st.cur)]

\* items.append(current_item)
AppendCurrent(st) == [st EXCEPT !.list = Append(st.list, st.cur)]

\* An item line first saves the pending item, with its stock number if one
\* is pending.
SavePending(st) ==
    IF st.cur # 0 /\ st.pending # "" THEN [AppendWithNsn(st) EXCEPT !.pending = ""]
    ELSE IF st.cur # 0 THEN AppendCurrent(st)
    ELSE st

ItemWords == {"ASSEMBLY", "CABLE", "CONNECTOR", "SWITCH"}

HasItemWord(upper) == \E w \in ItemWords : Contains(upper, w)

\* re.match(r'^[AB]\s+', line) or any(x in line.upper() for x in [...])
IsItemLine(line) ==
    \/ Len(line) >= 2 /\ Ch(line, 1) \in {"A", "B"} /\ IsSpace(Ch(line, 2))
    \/ HasItemWord(Upper(line))

\* re.sub(r'\b(WTY|ARC|CIIC|UI|SCMC|EA|AY|9K|9G)\b', '', d, flags=re.IGNORECASE)
RemoveColumnCodes(d) == Without(d, CodeWords(d, ColumnCodes))

\* The description of an item line: its words from the third on, cleaned.
LineDescription(parts) ==
    MainCleanDescription(RemoveColumnCodes(Join(SubSeq(parts, 3, Len(parts)))))

\* current_item = BomItem(line_no=len(items) + 1, ..., nsn="", qty=qty)
NewCurrent(st, q) ==
    [st EXCEPT !.objs = Append(st.objs, BomItem(Len(st.list) + 1, q.description, "", q.qty)),
               !.cur = Len(st.objs) + 1]

\* `if len(parts) >= 3`: only then is there a new current_item.
ItemFromParts(st, parts) ==
    IF Len(parts) >= 3 THEN NewCurrent(st, QtySplit(LineDescription(parts))) ELSE st

\* `pending_nsn = ...` when the line holds a 9-digit number with \b around it.
PendingFrom(st, nsn) == IF nsn # "" THEN [st EXCEPT !.pending = nsn] ELSE st

\* One iteration of `while i < len(lines)`.
MainLine(st, line) ==
    IF IsItemLine(line) THEN ItemFromParts(SavePending(st), Words(line))
    ELSE IF IsNineDigits(line) THEN [st EXCEPT !.pending = line]
    ELSE PendingFrom(st, SearchNsn(line))

\* "Don't forget the last item": after the lines of a page.
SaveLast(st) ==
    IF st.cur = 0 THEN st
    ELSE IF st.pending # "" THEN AppendWithNsn(st)
    ELSE AppendCurrent(st)

\* The list `items` as values: each entry is the object it refers to.
Listed(st) == [k \in 1..Len(st.list) |-> st.objs[st.list[k]]]

(***************************************************************************)
(* main.py: _extract_via_tables                                            *)
(***************************************************************************)
HasLetter(t) == \E i \in 1..Len(t) : Ch(t, i) \in LetterSet

\* The first branch of the chain over a cell: text that is a description.
IsDescriptionCell(t) ==
    /\ Len(t) > 10
    /\ HasLetter(t)
    /\ ~IsNineDigits(t)
    /\ t \notin {"A", "B"}
    /\ Upper(t) \notin ColumnCodes

MinCellQty == 1

MaxCellQty == 100

\* cell_text.isdigit() and 1 <= int(cell_text) <= 100
IsQtyValue(v) == MinCellQty <= v /\ v <= MaxCellQty

\* The digits of t before its last three are all zeros: the value of a
\* longer number is above 100 whatever its other digits.
ZerosBeforeLast3(t) == \A i \in 1..(Len(t) - 3) : Ch(t, i) = "0"

\* The last three characters of t, all of t when it is shorter.
Last3(t) == SubSeq(t, Max2(1, Len(t) - 2), Len(t))

\* int(t) of a string of digits whose value is below 1000.
SmallValue(t) == DigitsValue(Last3(t), Len(Last3(t)))

IsQtyCell(t) == IsDigitStr(t) /\ ZerosBeforeLast3(t) /\ IsQtyValue(SmallValue(t))

\* What a cell with the stripped text t does to description, nsn and qty.
CellInto(acc, t) ==
    IF IsDescriptionCell(t) THEN [acc EXCEPT !.description = MainCleanDescription(t)]
    ELSE IF IsNineDigits(t) THEN [acc EXCEPT !.nsn = t]
    ELSE IF IsQtyCell(t) THEN [acc EXCEPT !.qty = SmallValue(t)]
    ELSE acc

RECURSIVE RowCells(_, _, _)
\* `for cell in row`, from cell c on; an empty cell is passed over.
RowCells(acc, row, c) ==
    IF c > Len(row) THEN acc
    ELSE RowCells(IF row[c] = "" THEN acc ELSE CellInto(acc, Strip(row[c])), row, c + 1)

\* `if description: items.append(...)`
RowAppend(its, acc) ==
    IF acc.description # ""
    THEN Append(its, BomItem(Len(its) + 1, acc.description, acc.nsn, acc.qty))
    ELSE its

RECURSIVE ViaTableRows(_, _, _)
ViaTableRows(its, table, r) ==
    IF r > Len(table) THEN its
    ELSE ViaTableRows(RowAppend(its, RowCells([description |-> "", nsn |-> "", qty |-> 1],
                                              table[r], 1)),
                      table, r + 1)

RECURSIVE ViaTablesOf(_, _, _)
\* `for table in tables`, a table of fewer than two rows being passed over.
ViaTablesOf(its, tables, t) ==
    IF t > Len(tables) THEN its
    ELSE ViaTablesOf(IF Len(tables[t]) < 2 THEN its ELSE ViaTableRows(its, tables[t], 2),
                     tables, t + 1)

RECURSIVE ViaTables(_, _, _)
\* _extract_via_tables over the pages from page p on.
ViaTables(its, pages, p) ==
    IF p > Len(pages) THEN its
    ELSE ViaTables(ViaTablesOf(its, pages[p].tables, 1), pages, p + 1)

\* extract_tables raises on a page of the loop of _extract_via_tables.
TablesRaise(pages, first) == \E p \in first..Len(pages) : pages[p].tablesRaise

(***************************************************************************)
(* The run: one call of generate_dd1750_from_pdf                           *)
(***************************************************************************)
VARIABLES
    source,      \* the file whose generate_dd1750_from_pdf is called
    lineScan,    \* main.py's extractor: its locals
    doc,         \* the BOM as pdfplumber parses it
    start_page,  \* the start_page argument
    tplPages,    \* number of pages of the template PDF
    pc,          \* where the call is
    page,        \* extractor: 1-based index of the page being handled
    items,       \* extractor: its local list
    textPages,   \* extractor: the pages whose text it read, in order
    result,      \* generator: what the extractor returned
    writer,      \* generator: pages added to the PdfWriter
    outFile,     \* the file at output_path
    fallbacks,   \* generator: entries into the except block
    ret          \* what the call gave its caller

vars == <<source, lineScan, doc, start_page, tplPages, pc, page, items, textPages, result,
          writer, outFile, fallbacks, ret>>

\* pdf.pages[start_page:] begins at this 1-based index.
FirstPage(n, sp) == IF sp >= 0 THEN Min2(sp, n) + 1 ELSE Max2(0, n + sp) + 1

NoFile == [state |-> "absent", pages |-> <<>>]

PartialFile == [state |-> "partial", pages |-> <<>>]

WrittenFile(pages) == [state |-> "written", pages |-> pages]

NotReturned == [kind |-> "none", count |-> 0]

Returned(n) == [kind |-> "returned", count |-> n]

Raised == [kind |-> "raised", count |-> 0]

InitCall(src, d, sp, tp) ==
    /\ source = src
    /\ lineScan = MainStart
    /\ doc = d
    /\ start_page = sp
    /\ tplPages = tp
    /\ pc = "call"
    /\ page = 0
    /\ items = <<>>
    /\ textPages = <<>>
    /\ result = <<>>
    /\ writer = <<>>
    /\ outFile = NoFile
    /\ fallbacks = 0
    /\ ret = NotReturned

InitOf(d, sp, tp) == InitCall("dd1750_core", d, sp, tp)

\* What the extractor returns when it has the items its.
ExtractReturn(its) == its

\* Fault variant of ExtractFailure: the except block returns what was collected.
ExtractFailurePartial(its) == its

\* What the extractor returns from its except block, whatever it had collected.
ExtractFailure(its) == <<>>

\* pdfplumber.open(pdf_path): raises, or the scan starts at pages[start_page:].
OpenPdf ==
    /\ source = "dd1750_core"
    /\ pc = "call"
    /\ IF doc.openFails
       THEN /\ result' = ExtractFailure(items)
            /\ pc' = "extracted"
            /\ page' = page
       ELSE /\ page' = FirstPage(Len(doc.pages), start_page)
            /\ pc' = "scan"
            /\ result' = result
    /\ UNCHANGED <<source, lineScan, doc, start_page, tplPages, items, textPages, writer,
                   outFile, fallbacks, ret>>

\* One iteration of the loop over the pages.
ScanStep(o) ==
    /\ textPages' = IF o.usesText THEN Append(textPages, page) ELSE textPages
    /\ IF o.raises
       THEN /\ result' = ExtractFailure(items)
            /\ pc' = "extracted"
            /\ UNCHANGED <<page, items>>
       ELSE /\ items' = o.items
            /\ page' = page + 1
            /\ UNCHANGED <<pc, result>>

ScanPage ==
    /\ pc = "scan"
    /\ page <= Len(doc.pages)
    /\ ScanStep(PageOutcome(doc.pages[page], items))
    /\ UNCHANGED <<source, lineScan, doc, start_page, tplPages, writer, outFile, fallbacks, ret>>

\* The loop is over: return items.
FinishScan ==
    /\ pc = "scan"
    /\ page > Len(doc.pages)
    /\ result' = ExtractReturn(items)
    /\ pc' = "extracted"
    /\ UNCHANGED <<source, lineScan, doc, start_page, tplPages, page, items, textPages, writer,
                   outFile, fallbacks, ret>>

\* The file at output_path after a write that ended with `outcome`: open(...,
\* 'wb') truncates before anything is written, so a failed write leaves a stub.
FileAfter(outcome, pages, before) ==
    IF outcome = "ok" THEN WrittenFile(pages)
    ELSE IF outcome = "write" THEN PartialFile
    ELSE before

\* Fault variant of TemplateCopy: the writer is written with no page added.
TemplateCopyNoPage == <<>>

\* writer.add_page(reader.pages[0]): the template's first page, nothing merged.
TemplateCopy == <<PlainPage(1)>>

\* The outcomes of reading the template's first page and writing the output:
\* "ok", or the step that raised.
CopyOutcomes == {"ok", "read", "open", "write"}

\* The count returned from the except block.
FallbackCount(its) == 0

\* The count returned after rendering the items its.
RenderCount(its) == Len(its)

\* `if not items`: a single copy of the template's first page, count 0.
EmptyTemplate ==
    /\ source = "dd1750_core"
    /\ pc = "extracted"
    /\ result = <<>>
    /\ \E outcome \in CopyOutcomes :
        /\ outcome # "read" => TemplateHasFirstPage(tplPages)
        /\ outFile' = FileAfter(outcome, TemplateCopy, outFile)
        /\ IF outcome = "ok"
           THEN pc' = "done" /\ ret' = Returned(0)
           ELSE pc' = "except" /\ ret' = ret
    /\ UNCHANGED <<source, lineScan, doc, start_page, tplPages, page, items, textPages, result,
                   writer, fallbacks>>

\* writer = PdfWriter() before the loop over the output pages.
BeginRender ==
    /\ source = "dd1750_core"
    /\ pc = "extracted"
    /\ result # <<>>
    /\ writer' = <<>>
    /\ pc' = "render"
    /\ UNCHANGED <<source, lineScan, doc, start_page, tplPages, page, items, textPages, result,
                   outFile, fallbacks, ret>>

\* The template page output page page_num (0-based) is drawn on.
TemplatePageFor(page_num) == 1

\* One iteration of the loop over the output pages: overlay, merge, add_page.
RenderPage ==
    /\ source = "dd1750_core"
    /\ pc = "render"
    /\ Len(writer) < TotalPages(Len(result))
    /\ \E outcome \in {"ok", "read", "merge"} :
        /\ outcome # "read" => TemplateHasFirstPage(tplPages)
        /\ IF outcome = "ok"
           THEN /\ writer' = Append(writer,
                        MergedPage(TemplatePageFor(Len(writer)),
                                   Overlay(PageChunk(result, Len(writer)))))
                /\ pc' = pc
           ELSE /\ pc' = "except"
                /\ writer' = writer
    /\ UNCHANGED <<source, lineScan, doc, start_page, tplPages, page, items, textPages, result,
                   outFile, fallbacks, ret>>

\* with open(output_path, 'wb') as f: writer.write(f); return output_path, len(items)
WriteOutput ==
    /\ source = "dd1750_core"
    /\ pc = "render"
    /\ Len(writer) = TotalPages(Len(result))
    /\ \E outcome \in {"ok", "open", "write"} :
        /\ outFile' = FileAfter(outcome, writer, outFile)
        /\ IF outcome = "ok"
           THEN pc' = "done" /\ ret' = Returned(RenderCount(result))
           ELSE pc' = "except" /\ ret' = ret
    /\ UNCHANGED <<source, lineScan, doc, start_page, tplPages, page, items, textPages, result,
                   writer, fallbacks>>

\* Fault variant of AfterFallback: a failed fallback is tried again.
AfterFallbackRetry(outcome) == IF outcome = "ok" THEN "done" ELSE "except"

\* Where the call is after the except block ended with `outcome`.
AfterFallback(outcome) == "done"

\* except Exception: write a copy of the template's first page and return
\* (output_path, 0); an exception raised in here leaves the function.
Fallback ==
    /\ pc = "except"
    /\ fallbacks' = fallbacks + 1
    /\ \E outcome \in CopyOutcomes :
        /\ outcome # "read" => TemplateHasFirstPage(tplPages)
        /\ outFile' = FileAfter(outcome, TemplateCopy, outFile)
        /\ pc' = AfterFallback(outcome)
        /\ ret' = IF outcome = "ok" THEN Returned(FallbackCount(result)) ELSE Raised
    /\ UNCHANGED <<source, lineScan, doc, start_page, tplPages, page, items, textPages, result,
                   writer>>

(***************************************************************************)
(* main.py: generate_dd1750_from_pdf                                       *)
(*                                                                         *)
(* The function has no try block: what raises in it reaches the caller.    *)
(***************************************************************************)
\* extract_items_from_pdf: pdfplumber.open(pdf_path) and pdf.pages[start_page:]
MainOpen ==
    /\ pc = "call"
    /\ source = "main"
    /\ IF doc.openFails
       THEN pc' = "done" /\ ret' = Raised /\ page' = page
       ELSE /\ pc' = "lines"
            /\ ret' = ret
            /\ page' = FirstPage(Len(doc.pages), start_page)
    /\ UNCHANGED <<source, lineScan, doc, start_page, tplPages, items, textPages,
                   result, writer, outFile, fallbacks>>

\* The top of the loop over the pages: extract_text, the lines,
\* current_item = None, pending_nsn = None.
MainReadPage ==
    /\ pc = "lines"
    /\ page <= Len(doc.pages)
    /\ lineScan.line = 0
    /\ IF doc.pages[page].textRaise
       THEN pc' = "done" /\ ret' = Raised /\ lineScan' = lineScan
       ELSE /\ lineScan' = [lineScan EXCEPT !.cur = 0, !.pending = "", !.line = 1,
                                            !.lines = TextLines(doc.pages[page].text)]
            /\ UNCHANGED <<pc, ret>>
    /\ UNCHANGED <<source, doc, start_page, tplPages, page, items, textPages,
                   result, writer, outFile, fallbacks>>

\* One iteration of `while i < len(lines)`, i += 1 included.
MainScanLine ==
    /\ pc = "lines"
    /\ lineScan.line >= 1
    /\ lineScan.line <= Len(lineScan.lines)
    /\ lineScan' = [MainLine(lineScan, lineScan.lines[lineScan.line])
                       EXCEPT !.line = lineScan.line + 1]
    /\ UNCHANGED <<source, doc, start_page, tplPages, pc, page, items, textPages,
                   result, writer, outFile, fallbacks, ret>>

\* After the lines of a page: the last item, then the next page.
MainEndPage ==
    /\ pc = "lines"
    /\ lineScan.line > Len(lineScan.lines)
    /\ lineScan' = [SaveLast(lineScan) EXCEPT !.line = 0]
    /\ page' = page + 1
    /\ UNCHANGED <<source, doc, start_page, tplPages, pc, items, textPages,
                   result, writer, outFile, fallbacks, ret>>

\* After the pages: `if len(items) == 0` the tables are tried; return items.
\* What raises in _extract_via_tables leaves generate_dd1750_from_pdf.
MainFinishScan ==
    /\ pc = "lines"
    /\ page > Len(doc.pages)
    /\ lineScan.line = 0
    /\ IF Len(lineScan.list) # 0
       THEN pc' = "extracted" /\ ret' = ret /\ result' = Listed(lineScan)
       ELSE IF TablesRaise(doc.pages, FirstPage(Len(doc.pages), start_page))
       THEN pc' = "done" /\ ret' = Raised /\ result' = result
       ELSE /\ pc' = "extracted"
            /\ ret' = ret
            /\ result' = ViaTables(<<>>, doc.pages,
                                   FirstPage(Len(doc.pages), start_page))
    /\ UNCHANGED <<source, lineScan, doc, start_page, tplPages, page, items,
                   textPages, writer, outFile, fallbacks>>

\* `if item_count == 0`: a single copy of the template's first page, count 0.
MainEmptyTemplate ==
    /\ pc = "extracted"
    /\ source = "main"
    /\ Len(result) = 0
    /\ \E outcome \in CopyOutcomes :
        /\ outcome # "read" => TemplateHasFirstPage(tplPages)
        /\ outFile' = FileAfter(outcome, <<PlainPage(1)>>, outFile)
        /\ ret' = IF outcome = "ok" THEN Returned(0) ELSE Raised
    /\ pc' = "done"
    /\ UNCHANGED <<source, lineScan, doc, start_page, tplPages, page, items, textPages,
                   result, writer, fallbacks>>

\* total_pages = math.ceil(item_count / ROWS_PER_PAGE); writer = PdfWriter()
MainBeginRender ==
    /\ pc = "extracted"
    /\ source = "main"
    /\ Len(result) # 0
    /\ writer' = <<>>
    /\ pc' = "render"
    /\ UNCHANGED <<source, lineScan, doc, start_page, tplPages, page, items, textPages,
                   result, outFile, fallbacks, ret>>

\* math.ceil(item_count / ROWS_PER_PAGE)
MainTotalPages(item_count) == (item_count + ROWS_PER_PAGE - 1) \div ROWS_PER_PAGE

\* items[p * ROWS_PER_PAGE : (p + 1) * ROWS_PER_PAGE]
MainChunk(its, p) ==
    SubSeq(its, p * ROWS_PER_PAGE + 1, Min2((p + 1) * ROWS_PER_PAGE, Len(its)))

\* The width of a character in Helvetica, in thousandths of the font size
\* (the font's metrics, which pdfmetrics.stringWidth adds up); a character
\* with no glyph among these adds nothing.
CharWidth(c) ==
    CASE c \in {" ", "!", ",", ".", "/", ":", ";", "I", "[", "\\", "]", "f", "t"}
             -> 278
      [] c \in DigitSet \cup {"#", "$", "?", "L", "_", "a", "b", "d", "e", "g", "h",
                              "n", "o", "p", "q", "u"} -> 556
      [] c \in {"&", "A", "B", "E", "K", "P", "S", "V", "X", "Y"} -> 667
      [] c \in {"C", "D", "H", "N", "R", "U", "w"} -> 722
      [] c \in {"J", "c", "k", "s", "v", "x", "y", "z"} -> 500
      [] c \in {"F", "T", "Z"} -> 611
      [] c \in {"G", "O", "Q"} -> 778
      [] c \in {"M", "m"} -> 833
      [] c \in {"i", "j", "l"} -> 222
      [] c \in {"(", ")", "-", "r"} -> 333
      [] c \in {"+", "<", "=", ">", "~"} -> 584
      [] c \in {"{", "}"} -> 334
      [] c = "W" -> 944
      [] c = "\"" -> 355
      [] c = "%" -> 889
      [] c = "'" -> 191
      [] c = "*" -> 389
      [] c = "@" -> 1015
      [] c = "^" -> 469
      [] c = "|" -> 260
      [] OTHER -> 0

RECURSIVE StringWidth(_, _, _)
\* The widths of the characters lo..hi of s, added up by halves.
StringWidth(s, lo, hi) ==
    IF lo > hi THEN 0
    ELSE IF lo = hi THEN CharWidth(Ch(s, lo))
    ELSE StringWidth(s, lo, (lo + hi) \div 2)
             + StringWidth(s, (lo + hi) \div 2 + 1, hi)

\* max_content_w = (X_CONTENT_R - X_CONTENT_L) - 2 * PAD_X, in points
MaxContentW == 271

\* The widest text, in thousandths of the font size, for which
\* pdfmetrics.stringWidth(s, font, size) <= max_content_w.
WidthBudget(size) == (MaxContentW * 1000) \div size

RECURSIVE FitCount(_, _, _, _)
\* How many of the characters lo..hi of s, taken from lo on, fit in budget:
\* the longest prefix of s[lo..hi] that is not wider.
FitCount(s, lo, hi, budget) ==
    IF lo > hi THEN 0
    ELSE IF lo = hi THEN (IF CharWidth(Ch(s, lo)) <= budget THEN 1 ELSE 0)
    ELSE IF StringWidth(s, lo, (lo + hi) \div 2) <= budget
    THEN ((lo + hi) \div 2 - lo + 1)
             + FitCount(s, (lo + hi) \div 2 + 1, hi,
                        budget - StringWidth(s, lo, (lo + hi) \div 2))
    ELSE FitCount(s, lo, (lo + hi) \div 2, budget)

\* The first line of the greedy wrap of t, of which n characters fit: all of
\* t when it fits, else its words up to the last one that fits whole, else
\* the part of its first word that fits, one character at least.
FirstLine(t, n) ==
    IF n = Len(t) THEN t
    ELSE IF \E e \in 1..n : Ch(t, e + 1) = " "
    THEN Prefix(t, Greatest({e \in 1..n : Ch(t, e + 1) = " "}))
    ELSE Prefix(t, Max2(1, n))

\* _wrap_to_width(text, font, size, max_w, max_lines=1)[0], for the text with
\* its whitespace collapsed and trimmed.
WrapToWidth(t, size) == FirstLine(t, FitCount(t, 1, Len(t), WidthBudget(size)))

\* What _build_overlay_page draws for one item: the description on one line
\* fitted to the column, the stock number when its line fits.
MainDrawnRow(it) ==
    [box    |-> IntStr(it.line_no),
     desc   |-> WrapToWidth(Strip(CollapseSpaces(it.description)), 7),
     nsn    |-> IF /\ it.nsn # ""
                   /\ StringWidth("NSN: " \o it.nsn, 1, Len(it.nsn) + 5)
                          <= WidthBudget(6)
                THEN "NSN: " \o it.nsn ELSE "",
     uoi    |-> "EA",
     init   |-> IntStr(it.qty),
     spares |-> "0",
     total  |-> IntStr(it.qty)]

\* _build_overlay_page: the rows 0..17 of the grid that have an item.
MainOverlay(chunk) ==
    [i \in 1..Min2(Len(chunk), ROWS_PER_PAGE) |-> MainDrawnRow(chunk[i])]

\* One iteration of `for p in range(total_pages)`.
MainRenderPage ==
    /\ pc = "render"
    /\ source = "main"
    /\ Len(writer) < MainTotalPages(Len(result))
    /\ \E outcome \in {"ok", "read", "merge"} :
        /\ outcome # "read" => TemplateHasFirstPage(tplPages)
        /\ IF outcome = "ok"
           THEN /\ writer' = Append(writer,
                        MergedPage(1, MainOverlay(MainChunk(result, Len(writer)))))
                /\ UNCHANGED <<pc, ret>>
           ELSE /\ pc' = "done"
                /\ ret' = Raised
                /\ writer' = writer
    /\ UNCHANGED <<source, lineScan, doc, start_page, tplPages, page, items, textPages,
                   result, outFile, fallbacks>>

\* with open(out_pdf_path, "wb") as f: writer.write(f); return out_pdf_path, item_count
MainWriteOutput ==
    /\ pc = "render"
    /\ source = "main"
    /\ Len(writer) = MainTotalPages(Len(result))
    /\ \E outcome \in {"ok", "open", "write"} :
        /\ outFile' = FileAfter(outcome, writer, outFile)
        /\ ret' = IF outcome = "ok" THEN Returned(Len(result)) ELSE Raised
    /\ pc' = "done"
    /\ UNCHANGED <<source, lineScan, doc, start_page, tplPages, page, items, textPages,
                   result, writer, fallbacks>>

(***************************************************************************)
(* The inputs                                                              *)
(***************************************************************************)
MaxPages == 2

MaxStartPage == 2

MaxTemplatePages == 2

MaxBulkRows == 37

Page(tables, text) ==
    [tables |-> tables, text |-> text, tablesRaise |-> FALSE, textRaise |-> FALSE]

Document(pages) == [openFails |-> FALSE, pages |-> pages]

HeaderBom == <<"LV", "Description", "Material", "Auth Qty">>

HeaderNoLevel == <<"Item", "Description", "Material", "Quantity">>

HeaderNoDesc == <<" level ", "Nomenclature", "Material", "Qty">>

Headers == {HeaderBom, HeaderNoLevel, HeaderNoDesc}

LongDescription ==
    "GENERATOR SET, DIESEL ENGINE DRIVEN, SKID MOUNTED, TACTICAL QUIET, 60 HZ, WITH ACCESSORY KIT AND TRAILER ADAPTER"

\* The cells of a data row; a vertical tab and a unit separator are among
\* the whitespace around the level and the quantity.
LvCells == {"B", "b\n", "A", "", "BB"}

DescCells ==
    {"Cable Assembly\nCONNECTOR, ELECTRICAL (WP)\nWTY", "", "(WP) x",
     "SWITCH: TOGGLE", "NUT", LongDescription}

MaterialCells == {"123456789", "NSN123456789", "", "1234567890"}

QtyCells == {"4", "0", "-3", "4 EA", "", " 12"}

\* One page, one table, one data row.
RowDoc(header, row) == Document(<<Page(<<<<header, row>>>>, "")>>)

\* Rows that are short, all empty, or hold text in a cell of another kind.
OddRows ==
    {<<"B">>, <<"B", "NUT">>, <<"", "", "", "">>, <<>>,
     <<"B", "HOSE ASSEMBLY", "123456789", "4", "x">>}

PageTables ==
    Page(<<<<HeaderBom>>,
           <<HeaderBom, <<"B", "BOLT, HEX", "123456789", "2">>,
                        <<"A", "ASSY", "", "">>,
                        <<"B", "(WP)", "222222222", "1">>,
                        <<"B", LongDescription, "", "3">>>>>>,
         "987654321 B WASHER, FLAT 5")

PageNoLevelB ==
    Page(<<<<HeaderBom, <<"A", "FRAME", "111111111", "1">>>>>>,
         "987654321 B WASHER, FLAT 5\nnoise")

PageText ==
    Page(<<>>, "123456789  B SCREW, CAP 0 (WP)\n X B PIN, COTTER 2\nB only\n555555555 B 7")

PageBlank == Page(<<>>, "")

PageTablesRaise == [Page(<<>>, "") EXCEPT !.tablesRaise = TRUE]

PageTextRaise == [Page(<<>>, "123456789 B NUT") EXCEPT !.textRaise = TRUE]

PageSamples ==
    {PageTables, PageNoLevelB, PageText, PageBlank, PageTablesRaise, PageTextRaise}

RECURSIVE PageSeqs(_)
\* The sequences of exactly n sample pages.
PageSeqs(n) ==
    IF n = 0 THEN {<<>>}
    ELSE {Append(ps, p) : ps \in PageSeqs(n - 1), p \in PageSamples}

\* A document pdfplumber cannot open.
BrokenDoc == [Document(<<PageTables>>) EXCEPT !.openFails = TRUE]

\* One page, one table of n level-B rows.
BulkDoc(n) ==
    Document(<<Page(<<<<HeaderBom>> \o
                      [i \in 1..n |-> <<"B", "ITEM, BULK", "", IntStr(i)>>]>>,
                    "")>>)

RECURSIVE BulkText(_, _)
\* The item lines lo..hi of a page's text, line i with the quantity i.
BulkText(lo, hi) ==
    IF lo > hi THEN ""
    ELSE IF lo = hi THEN "B x ITEM, BULK " \o IntStr(lo)
         ELSE BulkText(lo, (lo + hi) \div 2) \o "\n"
              \o BulkText((lo + hi) \div 2 + 1, hi)

\* One page whose text has n item lines.
MainBulkDoc(n) == Document(<<Page(<<>>, BulkText(1, n))>>)

\* Texts of main.py's line format: an item line with its stock number on the
\* next line, item lines of fewer than three words, a material line, a
\* description wider than the column it is drawn in.
MainTexts ==
    {"B 1 CABLE ASSY 2\n123456789\nA x\n011800996 C_75Q65 ~ 1354640W",
     "B x " \o LongDescription \o "\n123456789",
     "x y SWITCH, TOGGLE WTY 4\n987654321\nSWITCH\nB 2 NUT",
     "B only",
     "noise"}

\* A page with a table main.py's _extract_via_tables reads, and the text.
MainPageOf(text) ==
    Page(<<<<HeaderBom, <<"B", "CONNECTOR, ELECTRICAL", "123456789", "4">>,
                        <<"A", "short", "", "">>>>>>, text)

\* The calls checked: single rows of every combination of cells, sequences of
\* sample pages from every start page, and tables of many level-B rows.
Init ==
    \/ \E h \in Headers, lv \in LvCells, d \in DescCells, m \in MaterialCells,
          q \in QtyCells : InitOf(RowDoc(h, <<lv, d, m, q>>), 0, 1)
    \/ \E r \in OddRows : InitOf(RowDoc(HeaderBom, r), 0, 1)
    \/ \E n \in 0..MaxPages, sp \in (0 - 1)..MaxStartPage :
          \E ps \in PageSeqs(n) : InitOf(Document(ps), sp, 1)
    \/ InitOf(BrokenDoc, 0, 1)
    \/ \E n \in 0..MaxBulkRows, tp \in 0..MaxTemplatePages :
          InitOf(BulkDoc(n), 0, tp)
    \/ \E n \in 0..MaxBulkRows, tp \in 0..MaxTemplatePages :
          InitCall("main", MainBulkDoc(n), 0, tp)
    \/ \E t1 \in MainTexts, t2 \in MainTexts \cup {""}, sp \in 0..1 :
          InitCall("main", Document(<<MainPageOf(t1), MainPageOf(t2)>>), sp, 1)
    \/ \E ps \in PageSeqs(1) \cup PageSeqs(2) : InitCall("main", Document(ps), 0, 1)
    \/ InitCall("main", BrokenDoc, 0, 1)

Next ==
    \/ OpenPdf
    \/ ScanPage
    \/ FinishScan
    \/ EmptyTemplate
    \/ BeginRender
    \/ RenderPage
    \/ WriteOutput
    \/ Fallback
    \/ MainOpen
    \/ MainReadPage
    \/ MainScanLine
    \/ MainEndPage
    \/ MainFinishScan
    \/ MainEmptyTemplate
    \/ MainBeginRender
    \/ MainRenderPage
    \/ MainWriteOutput

Spec == Init /\ [][Next]_vars

(***************************************************************************)
(* Properties                                                              *)
(***************************************************************************)
\* The extractor has returned to the generator.
Extracted == pc \notin {"call", "scan", "lines"}

\* The extractor left its try block by an exception: the PDF did not open, or
\* the loop over the pages stopped at a page.
ExtractRaised ==
    source = "dd1750_core" /\ Extracted /\ (doc.openFails \/ page <= Len(doc.pages))

Numbered(its) == \A k \in 1..Len(its) : its[k].line_no = k

\* C1: the k-th item of the list dd1750_core.py's extractor builds and returns
\* has line_no k: the numbers are 1..N in extraction order, not reset between
\* pages, tables, or the table path and the text path.
C1_LineNumbersContiguous ==
    source = "dd1750_core" => (Numbered(items) /\ Numbered(result))

\* Two items from the text of page 1, then two from the table of page 2.
C1_Witness ==
    /\ source = "dd1750_core"
    /\ pc = "extracted"
    /\ doc.pages = <<PageText, PageTables>>
    /\ start_page = 0
    /\ textPages = <<1>>
    /\ Len(result) = 4
    /\ result[4].line_no = 4

DescriptionsBounded(its) ==
    \A k \in 1..Len(its) :
        its[k].description # "" /\ Len(its[k].description) <= 100

\* C2: every item has a description that is not empty and at most 100
\* characters long; a candidate with an empty cleaned description is dropped.
C2_DescriptionBounded ==
    source = "dd1750_core" =>
        (DescriptionsBounded(items) /\ DescriptionsBounded(result))

\* A table with a level-B row whose description cleans to nothing and one
\* whose description is cut to 100 characters.
C2_Witness ==
    /\ source = "dd1750_core"
    /\ pc = "extracted"
    /\ doc.pages = <<PageTables>>
    /\ start_page = 0
    /\ Len(result) = 2
    /\ Len(result[2].description) = 100
    /\ \E r \in 2..Len(doc.pages[1].tables[2]) :
          /\ IsLevelB(doc.pages[1].tables[2][r][1])
          /\ CellDescription(doc.pages[1].tables[2][r][2]) = ""

\* C3: every item has quantity >= 1, whatever the quantity cell or the
\* trailing digit token holds.
C3_QuantityPositive ==
    source = "dd1750_core" =>
        /\ \A k \in 1..Len(items) : items[k].qty >= 1
        /\ \A k \in 1..Len(result) : result[k].qty >= 1

\* C4: when opening the PDF or handling a page raises, also after items were
\* collected, the extractor returns the empty sequence to its caller.
C4_FailureGivesEmpty == ExtractRaised => result = <<>>

\* A page raised after an earlier page had given items.
C4_Witness ==
    /\ source = "dd1750_core"
    /\ pc = "extracted"
    /\ ~doc.openFails
    /\ page <= Len(doc.pages)
    /\ items # <<>>
    /\ result = <<>>

\* How many rows the output page p holds.
RowsOn(p) == Len(outFile.pages[p].rows)

\* C5: when N >= 1 items are rendered and written without an error, the
\* output has ceil(N / 18) pages (the P with 18 (P - 1) < N <= 18 P), each
\* with 18 rows but the last, which has N mod 18 rows, or 18 when that is 0.
C5_Pagination ==
    (pc = "done" /\ fallbacks = 0 /\ ret.kind = "returned" /\ Len(result) >= 1) =>
        /\ outFile.state = "written"
        /\ 18 * (Len(outFile.pages) - 1) < Len(result)
        /\ Len(result) <= 18 * Len(outFile.pages)
        /\ \A p \in 1..(Len(outFile.pages) - 1) : RowsOn(p) = 18
        /\ RowsOn(Len(outFile.pages)) =
              IF Len(result) % 18 = 0 THEN 18 ELSE Len(result) % 18

\* 37 items on 3 pages of 18, 18 and 1 rows.
C5_Witness ==
    /\ source = "dd1750_core"
    /\ pc = "done"
    /\ fallbacks = 0
    /\ Len(result) = 37
    /\ Len(outFile.pages) = 3
    /\ RowsOn(1) = 18
    /\ RowsOn(2) = 18
    /\ RowsOn(3) = 1

\* C6: when no item is extracted and the call returns, the file at
\* output_path is one page, the template's first page with nothing merged on
\* it, and the count returned is 0.
C6_EmptyGivesTemplate ==
    (pc = "done" /\ result = <<>> /\ ret.kind = "returned") =>
        /\ ret.count = 0
        /\ outFile = [state |-> "written",
                      pages |-> <<[tpl |-> 1, merged |-> FALSE, rows |-> <<>>]>>]

\* A table whose only row is of level A, written at the first attempt.
C6_Witness ==
    /\ pc = "done"
    /\ doc = RowDoc(HeaderBom, <<"A", "NUT", "123456789", "4">>)
    /\ result = <<>>
    /\ fallbacks = 0
    /\ ret = Returned(0)
    /\ outFile.state = "written"

\* C7: the count returned is the number of items the extractor gave, on every
\* returning path, the one through the except block included.
C7_CountIsExtracted ==
    (source = "dd1750_core" /\ ret.kind = "returned") => ret.count = Len(result)

\* C8: an error while rendering or writing leads to one fallback attempt: the
\* except block is entered at most once, it either writes the single
\* unmerged copy of the template's first page and returns, or raises, and an
\* error reaches the caller from nowhere else.
C8_SingleFallback ==
    source = "dd1750_core" =>
    /\ fallbacks <= 1
    /\ pc = "except" => (fallbacks = 0 /\ ret.kind = "none")
    /\ (pc = "done" /\ fallbacks = 1) =>
          \/ /\ ret.kind = "returned"
             /\ outFile = [state |-> "written",
                           pages |-> <<[tpl |-> 1, merged |-> FALSE, rows |-> <<>>]>>]
          \/ ret.kind = "raised"
    /\ ret.kind = "raised" => (pc = "done" /\ fallbacks = 1)
    /\ (pc = "done" /\ fallbacks = 0) => ret.kind = "returned"

\* Two pages were rendered, the write failed, and the fallback returned.
C8_Witness ==
    /\ pc = "done"
    /\ fallbacks = 1
    /\ ret.kind = "returned"
    /\ Len(writer) = 2
    /\ outFile.state = "written"
    /\ Len(outFile.pages) = 1

\* The data rows <<t, r>> of a page's tables.
DataRows(pg) ==
    UNION {{<<t, r>> : r \in 2..Len(pg.tables[t])} : t \in 1..Len(pg.tables)}

\* The level cell of a data row under its table's header, "" without one.
LevelCell(header, row) == CellAt(row, ColIndex(header, "lv"))

\* The data rows whose table has a level column and whose level cell, trimmed
\* and upper-cased, is "B".
LevelBRows(pg) ==
    {tr \in DataRows(pg) :
        /\ ColIndex(pg.tables[tr[1]][1], "lv") > 0
        /\ Upper(Strip(LevelCell(pg.tables[tr[1]][1], pg.tables[tr[1]][tr[2]]))) = "B"}

RECURSIVE LevelBCount(_, _)
\* How many such rows the pages from page p on have.
LevelBCount(pages, p) ==
    IF p > Len(pages) THEN 0
    ELSE Cardinality(LevelBRows(pages[p])) + LevelBCount(pages, p + 1)

\* C9: in the table path a data row gives an item only if its table has a
\* level column and its level cell, trimmed and upper-cased, is exactly "B":
\* the tables of a page give no more items than they have such rows, and a
\* call that read no page's text returns no more items than the pages it
\* scanned have such rows.
C9_OnlyLevelBRows ==
    (source = "dd1750_core" /\ pc = "extracted") =>
        /\ \A p \in 1..Len(doc.pages) :
              Len(AfterTables(doc.pages[p], <<>>))
                  <= Cardinality(LevelBRows(doc.pages[p]))
        /\ textPages = <<>> =>
              Len(result) <= LevelBCount(doc.pages,
                                         FirstPage(Len(doc.pages), start_page))

\* Of the four data rows three are of level B and one of level A; the level-A
\* row gives nothing and the items come from level-B rows.
C9_Witness ==
    /\ source = "dd1750_core"
    /\ pc = "extracted"
    /\ doc.pages = <<PageTables>>
    /\ start_page = 0
    /\ Cardinality(DataRows(doc.pages[1])) = 4
    /\ Cardinality(LevelBRows(doc.pages[1])) = 3
    /\ Len(result) = 2
    /\ result[1].description = "BOLT, HEX"

\* C10: header ["LV","Description","Material","Auth Qty"] with the row
\* ["B", "Cable Assembly\nCONNECTOR, ELECTRICAL (WP)\nWTY", "123456789", "4"]
\* gives one item with the description "CONNECTOR, ELECTRICAL", the second
\* line of the cell, stock number "123456789" and quantity 4.
C10_SecondLineIsDescription ==
    (/\ pc = "extracted"
     /\ doc = RowDoc(HeaderBom,
                     <<"B", "Cable Assembly\nCONNECTOR, ELECTRICAL (WP)\nWTY",
                       "123456789", "4">>)) =>
        result = <<[line_no |-> 1, description |-> "CONNECTOR, ELECTRICAL",
                    nsn |-> "123456789", qty |-> 4]>>

\* The pages the extractor went through, when no page raised.
ScannedPages == FirstPage(Len(doc.pages), start_page)..Len(doc.pages)

\* The pages whose text the extractor read.
TextPageSet == {textPages[k] : k \in 1..Len(textPages)}

\* C11: the text fallback is decided page by page: when the extractor has
\* gone through the pages, the pages whose text it read are exactly the
\* scanned pages whose tables give no item, whatever earlier pages gave.
C11_FallbackPerPage ==
    (source = "dd1750_core" /\ pc = "extracted" /\ ~ExtractRaised) =>
        \A p \in ScannedPages :
            (p \in TextPageSet) <=> (AfterTables(doc.pages[p], <<>>) = <<>>)

\* The line begins with nine digits, whitespace, "B", whitespace, and text.
CodeLine(line) ==
    /\ Len(line) >= 13
    /\ AllDigits(SubSeq(line, 1, 9))
    /\ \E b \in 11..(Len(line) - 2) :
          /\ \A j \in 10..(b - 1) : IsSpace(Ch(line, j))
          /\ Ch(line, b) = "B"
          /\ IsSpace(Ch(line, b + 1))

\* The items its that line j of lines gave: none, unless the line is of that
\* shape and its leading nine digits are the item's stock number.
OwnCode(lines, j, its) ==
    its # <<>> =>
        /\ CodeLine(lines[j])
        /\ \A k \in 1..Len(its) : its[k].nsn = SubSeq(lines[j], 1, 9)

OwnCodes(lines) ==
    \A j \in 1..Len(lines) : OwnCode(lines, j, LineItems(lines, j, <<>>))

\* The last page whose text the extractor read.
LastTextPage == textPages[Len(textPages)]

\* C12: the items the text of a page gives come only from lines that begin
\* with a 9-digit code, "B" and descriptive text, each with the leading nine
\* digits of such a line as its stock number; a line without a leading
\* 9-digit code gives no item and no stock number comes from another line.
C12_TextItemOwnsCode ==
    (source = "dd1750_core" /\ pc = "extracted" /\ ~ExtractRaised
     /\ textPages # <<>>) =>
        OwnCodes(TextLines(doc.pages[LastTextPage].text))

\* The box numbers of chunk p (1-based) of the items its.
ChunkBoxes(its, p) ==
    {IntStr(its[k].line_no) : k \in (18 * (p - 1) + 1)..Min2(18 * p, Len(its))}

\* Output page pg, the p-th, is drawn on template page p when the template
\* has one and on its first page otherwise, and holds rows of chunk p only.
OnOwnTemplatePage(pg, p) ==
    /\ pg.tpl = IF tplPages >= p THEN p ELSE 1
    /\ pg.merged
    /\ \A i \in 1..Len(pg.rows) : pg.rows[i].box \in ChunkBoxes(result, p)

\* C13: when the items are rendered and written, output page k is a fresh
\* copy of the template's page k when the template has at least k pages and
\* of its first page otherwise, and carries the overlay of chunk k only.
C13_TemplatePagePerChunk ==
    (pc = "done" /\ fallbacks = 0 /\ ret.kind = "returned" /\ Len(result) >= 1) =>
        \A p \in 1..Len(outFile.pages) : OnOwnTemplatePage(outFile.pages[p], p)

\* The call was on one page holding one table of a header and one data row,
\* and the row gave the one item returned.
OneRowGaveItem ==
    /\ source = "dd1750_core"
    /\ pc = "extracted"
    /\ Len(doc.pages) = 1
    /\ Len(doc.pages[1].tables) = 1
    /\ Len(doc.pages[1].tables[1]) = 2
    /\ textPages = <<>>
    /\ Len(result) = 1

\* The cell of that row under the header's column of the given role.
OneRowCell(role) ==
    CellOf(doc.pages[1].tables[1][1], doc.pages[1].tables[1][2], role)

\* The positions of s that hold a digit.
DigitsAt(s) == {i \in 1..Len(s) : IsDigit(Ch(s, i))}

\* The end of the run of digits of s that begins at position i.
RunEnd(s, i) == Least({j \in i..Len(s) : j = Len(s) \/ ~IsDigit(Ch(s, j + 1))})

\* The digits of s from position i to the end of their run.
RunFrom(s, i) == SubSeq(s, i, RunEnd(s, i))

\* The value of the first run of digits of s, 1 when s has no digit.
FirstRunValue(s) ==
    IF DigitsAt(s) = {} THEN 1
    ELSE DigitsValue(RunFrom(s, Least(DigitsAt(s))),
                     Len(RunFrom(s, Least(DigitsAt(s)))))

\* C14: the quantity of an item from a table row is the value of the first
\* run of digits in the row's quantity cell ("4 EA" gives 4), and 1 when the
\* cell has no digit, is empty, or there is no quantity column.
C14_QuantityFirstDigitRun ==
    OneRowGaveItem => result[1].qty = FirstRunValue(OneRowCell("qty"))

\* The positions of s where nine consecutive digits begin.
NineDigitsAt(s) == {i \in 1..(Len(s) - 8) : AllDigits(SubSeq(s, i, i + 8))}

\* The first nine consecutive digits of s, "" when s has none.
FirstNineDigits(s) ==
    IF NineDigitsAt(s) = {} THEN ""
    ELSE SubSeq(s, Least(NineDigitsAt(s)), Least(NineDigitsAt(s)) + 8)

\* C15: the stock number of an item from a table row is the first nine
\* consecutive digits of the row's stock-number cell, also inside a longer
\* run of digits or next to letters, and "" exactly when the cell has no
\* nine consecutive digits or there is no such column.
C15_StockNumberFirstNineDigits ==
    OneRowGaveItem => result[1].nsn = FirstNineDigits(OneRowCell("material"))

\* No object is referred to by two entries of the list, and once the pages
\* are read every object made is referred to by one.
ListedOnce(st) ==
    \A id \in 1..Len(st.objs) :
        /\ Cardinality({k \in 1..Len(st.list) : st.list[k] = id}) <= 1
        /\ pc = "extracted" => \E k \in 1..Len(st.list) : st.list[k] = id

\* C16: main.py's line-oriented extractor appends each BomItem it makes to
\* the list exactly once, item lines of fewer than three words included, so
\* no item changes after it is appended and the list it returns is numbered
\* 1..N without repeats.
C16_MainAppendsOnce ==
    source = "main" =>
        /\ ListedOnce(lineScan)
        /\ pc = "extracted" => Numbered(result)

\* Row i of output page p shows the item it: its line_no as box number, its
\* stock number and its quantity.
ShowsItem(row, it) ==
    /\ row.box = IntStr(it.line_no)
    /\ row.nsn = (IF it.nsn # "" THEN "NSN: " \o it.nsn ELSE "")
    /\ row.init = IntStr(it.qty)
    /\ row.total = IntStr(it.qty)

\* The pages pgs, read in order and top to bottom, are the items its: no page
\* has more than 18 rows, row i of page p shows item 18 (p - 1) + i, and
\* every item has its row.
PagesShow(pgs, its) ==
    /\ \A p \in 1..Len(pgs) :
          /\ Len(pgs[p].rows) <= 18
          /\ \A i \in 1..Len(pgs[p].rows) :
                /\ 18 * (p - 1) + i <= Len(its)
                /\ ShowsItem(pgs[p].rows[i], its[18 * (p - 1) + i])
    /\ \A k \in 1..Len(its) :
          /\ ((k - 1) \div 18) + 1 <= Len(pgs)
          /\ ((k - 1) % 18) + 1 <= Len(pgs[((k - 1) \div 18) + 1].rows)

\* C17: pagination neither loses, duplicates nor reorders items: when the
\* items are rendered and written, row i (0-based) of page p (0-based) shows
\* item 18 p + i + 1 of the extracted sequence with that item's own line_no
\* as box number, every item has its row, and no page has more than 18 rows.
C17_PagesAreTheSequence ==
    (pc = "done" /\ fallbacks = 0 /\ ret.kind = "returned" /\ Len(result) >= 1) =>
        PagesShow(outFile.pages, result)

\* main.py wrote 37 items: the second page begins with box 19 and the third
\* holds box 37 alone.
C17_Witness ==
    /\ source = "main"
    /\ pc = "done"
    /\ ret = Returned(37)
    /\ Len(outFile.pages) = 3
    /\ outFile.pages[1].rows[18].box = "18"
    /\ outFile.pages[2].rows[1].box = "19"
    /\ outFile.pages[3].rows[1].box = "37"
    /\ Len(outFile.pages[3].rows) = 1

====
